---- MODULE Spec2Model ----
(***************************************************************************)
(* A model of the AML bot of src/bot.py: the blacklist file, the           *)
(* secret-gated ConversationHandler dialogue that edits it, and the report *)
(* generator behind the address check.                                     *)
(*                                                                         *)
(* Strings are sequences of one-character strings, so that strip(),        *)
(* lower(), startswith() and len() are computed as Python computes them.   *)
(* The Application is built without concurrent_updates, so every handler   *)
(* runs to completion before the next update is dispatched: one action is  *)
(* one handled update.                                                     *)
(***************************************************************************)
EXTENDS Integers, Sequences, FiniteSets, TLC

\* ------------------------------------------------------------------ bounds

\* Largest number of blanks put in front of and behind an input text.
MaxPad == 1

\* Largest number of lines of a file sent to the generator bot.
MaxLines == 2

\* ------------------------------------------------------- program constants

ENTER_PHRASE == 0
CHOOSE_ACTION == 1
ENTER_ADDRESS == 2
ENTER_REASON == 3
CONFIRM_REMOVE == 4
\* ConversationHandler.END: the conversation is over (no entry for the key).
END == -1

\* The length check_address and handle_address require.
AddrLen == 42

SECRET_PHRASE == <<"k", "e", "y">>
\* 'source' of a hand-made entry ("Ручное добавление" in the source, transliterated)
MANUAL_SOURCE == "Ruchnoe dobavlenie"

\* ----------------------------------------------------------------- strings

Rep(n, c) == [i \in 1..n |-> c]

IsSpace(c) == c = " "

RECURSIVE lstrip(_)
lstrip(s) == IF s # <<>> /\ IsSpace(Head(s)) THEN lstrip(Tail(s)) ELSE s

RECURSIVE rstrip(_)
rstrip(s) ==
    IF s # <<>> /\ IsSpace(s[Len(s)]) THEN rstrip(SubSeq(s, 1, Len(s) - 1)) ELSE s

\* str.strip()
strip(s) == rstrip(lstrip(s))

\* str.lower(), on the letters the inputs are written with
lower_char(c) ==
    CASE c = "A" -> "a"
      [] c = "B" -> "b"
      [] c = "X" -> "x"
      [] c = "Z" -> "z"
      [] OTHER -> c

LowerKeepsCase(s) == s

lower(s) == [i \in 1..Len(s) |-> lower_char(s[i])]

\* str.startswith()
startswith(s, p) == Len(s) >= Len(p) /\ SubSeq(s, 1, Len(p)) = p

Pad(l, s, r) == Rep(l, " ") \o s \o Rep(r, " ")

\* The texts of S as sent with 0..MaxPad blanks on both sides.
Padded(S) == {Pad(n, s, n) : n \in 0..MaxPad, s \in S}

\* ------------------------------------------------------------------ inputs

Users == {"u1", "u2"}

\* Conversation keys, (chat id, user id) as ConversationHandler builds them
\* with per_chat and per_user: each user's private chat, and a group chat in
\* which u1 also talks to the bot.
Keys ==
    { [chat |-> "private_u1", user |-> "u1"],
      [chat |-> "private_u2", user |-> "u2"],
      [chat |-> "group", user |-> "u1"] }

Username(u) == IF u = "u1" THEN "alice" ELSE "bob"

Pre0x == <<"0", "x">>
AddrA == Pre0x \o Rep(AddrLen - 2, "a")
AddrAMixed == Pre0x \o Rep(AddrLen - 2, "A")
AddrUpperPrefix == <<"0", "X">> \o Rep(AddrLen - 2, "a")
AddrNotHex == Pre0x \o Rep(AddrLen - 2, "z")
AddrShort == <<"0", "x", "1", "2", "3">>
AddrLong == Pre0x \o Rep(AddrLen - 1, "a")
AddrNoPrefix == Rep(AddrLen, "a")

\* Texts sent where an address is expected.
AddressTexts ==
    Padded({AddrA})
        \cup {AddrAMixed, AddrUpperPrefix, AddrNotHex, AddrShort, AddrLong,
              AddrNoPrefix}

\* Texts sent where the code phrase is expected.
PhraseTexts == Padded({SECRET_PHRASE}) \cup {<<"k", "e">>, <<"K", "e", "y">>}

\* Texts sent where the reason is expected.
ReasonTexts == Padded({<<"r", "1">>}) \cup {<<"r", "2">>}

\* callback_data of the three buttons of check_phrase's keyboard
Choices == {"add", "remove", "cancel"}

\* ------------------------------------------------------------------- state

VARIABLES
    peers,       \* the conversation keys that talk to the bot in this run
    running,     \* the process is up (main has run and polls for updates)
    api_key,     \* ETHERSCAN_API_KEY is set in the environment
    file,        \* blacklist.json: [kind, data]
    conv,        \* ConversationHandler's state of each conversation key
    user_data,   \* context.user_data of each user
    matched,     \* the open conversation of the key has passed check_phrase
    accepted,    \* the address check_address accepted in the open conversation
    out,         \* the last update the dialogue handled and the message it sent
    crashed,     \* while the process is down: the save_blacklist call it was killed
                 \* in (what was on disk before it, and what it was writing)
    report,      \* the last address check: the request, the answers, the reply
    gen          \* the generator bot of src/test.py: its last call and its disk

vars ==
    <<peers, running, api_key, file, conv, user_data, matched, accepted, out,
      crashed, report, gen>>

\* A Python dict is a function; {} is the function of empty domain.
EmptyDict == <<>>

\* d[k] = v
Put(d, k, v) == [x \in DOMAIN d \cup {k} |-> IF x = k THEN v ELSE d[x]]

PopKeepsKey(d, k) == d

\* d.pop(k): the dict it leaves
Pop(d, k) == [x \in DOMAIN d \ {k} |-> d[x]]

\* The file holds a JSON object (kind "json", its contents in data), does not
\* exist ("missing"), or holds what an interrupted write left: nothing
\* ("empty") or the first part of a JSON text ("partial").
JsonFile(d) == [kind |-> "json", data |-> d]

NoFile == [kind |-> "missing", data |-> EmptyDict]

EmptyFile == [kind |-> "empty", data |-> EmptyDict]

PartialFile == [kind |-> "partial", data |-> EmptyDict]

NoData == [phrase |-> <<>>, address |-> <<>>]

\* A message of the dialogue: what it says (kind) and the values it shows. A
\* value the text of the message does not contain is <<>> (source: "").
Msg(kind, address, reason, source) ==
    [kind |-> kind, address |-> address, reason |-> reason, source |-> source]

Say(kind) == Msg(kind, <<>>, <<>>, "")

\* The update handled last: the conversation key, the handler that ran, the
\* state the conversation was in, and the message sent.
Out(k, handler, from, msg) ==
    [key |-> k, handler |-> handler, from |-> from, msg |-> msg]

NoKey == [chat |-> "none", user |-> "none"]

NoOut == Out(NoKey, "none", END, Say("none"))

NoCrash == [killed |-> FALSE, pre |-> EmptyDict, post |-> EmptyDict]

NoReport ==
    [kind |-> "none", text |-> <<>>, bal |-> <<>>, tx |-> <<>>,
     con |-> <<>>, reply |-> <<>>]

\* The generator bot has handled no document; its directory is empty.
NoGen ==
    [name |-> <<>>, lines |-> <<>>, fault |-> "none", reply_fails |-> FALSE,
     exit |-> "none", keys |-> {}, disk |-> {}]

\* ---------------------------------------------------------------- the file

\* load_blacklist(): the dict it returns. A missing file gives {}, and so
\* does a file json.load cannot parse (the except branch).
load_blacklist(f) == IF f.kind = "json" THEN f.data ELSE EmptyDict

LoadTruncates(f) == JsonFile(EmptyDict)

\* load_blacklist(): the file it leaves. A missing file is created holding {}.
load_blacklist_file(f) == IF f.kind = "missing" THEN JsonFile(EmptyDict) ELSE f

\* What can happen to one call of save_blacklist(data):
\*   ok                 the file is opened, written and closed
\*   open_error         open() raises: nothing is written
\*   write_error        json.dump raises after open(.., 'w') truncated the file
\*   killed_after_open  the process stops after open(.., 'w') truncated the file
\*   killed_in_dump     the process stops while json.dump is writing
SaveOutcomes == {"ok", "open_error", "write_error", "killed_after_open", "killed_in_dump"}

Killed(o) == o \in {"killed_after_open", "killed_in_dump"}

\* save_blacklist(data): the file it leaves
save_blacklist_file(f, data, o) ==
    CASE o = "ok" -> JsonFile(data)
      [] o = "open_error" -> f
      [] o = "write_error" -> PartialFile
      [] o = "killed_after_open" -> EmptyFile
      [] o = "killed_in_dump" -> PartialFile

\* save_blacklist(data): the value it returns
save_blacklist(o) == o = "ok"

\* The process stops: the conversations and user_data live in memory only.
Stopped ==
    /\ running' = FALSE
    /\ conv' = [k \in Keys |-> END]
    /\ user_data' = [u \in Users |-> NoData]
    /\ matched' = [k \in Keys |-> FALSE]
    /\ accepted' = [k \in Keys |-> <<>>]

\* ------------------------------------------------------------ the dialogue

\* The runs looked at: any two of the conversation keys talk to the bot.
Deployments == {S \in SUBSET Keys : Cardinality(S) = 2}

Init ==
    /\ peers \in Deployments
    /\ running = FALSE
    /\ api_key = TRUE
    /\ file \in {NoFile, JsonFile(EmptyDict)}
    /\ conv = [k \in Keys |-> END]
    /\ user_data = [u \in Users |-> NoData]
    /\ matched = [k \in Keys |-> FALSE]
    /\ accepted = [k \in Keys |-> <<>>]
    /\ out = NoOut
    /\ crashed = NoCrash
    /\ report = NoReport
    /\ gen = NoGen

\* main(): creates the file when there is none, then polls.
main ==
    /\ ~running
    /\ running' = TRUE
    /\ file' = IF file.kind = "missing" THEN JsonFile(EmptyDict) ELSE file
    /\ crashed' = NoCrash
    /\ UNCHANGED <<gen, peers, api_key, conv, user_data, matched, accepted, out, report>>

\* /blacklist, the entry point: only a key with no open conversation enters.
start_blacklist_management(k) ==
    /\ running
    /\ k \in peers
    /\ conv[k] = END
    /\ conv' = [conv EXCEPT ![k] = ENTER_PHRASE]
    /\ out' = Out(k, "start_blacklist_management", conv[k], Say("ask_phrase"))
    /\ UNCHANGED <<gen, peers, running, api_key, file, user_data, matched, accepted, crashed, report>>

PhraseAlwaysMatches(text) == TRUE

\* check_phrase's test of the text sent
phrase_matches(text) == strip(text) = SECRET_PHRASE

check_phrase(k, text) ==
    /\ running
    /\ conv[k] = ENTER_PHRASE
    /\ IF ~phrase_matches(text)
       THEN /\ conv' = [conv EXCEPT ![k] = END]
            /\ out' = Out(k, "check_phrase", conv[k], Say("wrong_phrase"))
            /\ UNCHANGED <<user_data, matched>>
       ELSE /\ user_data' = [user_data EXCEPT ![k.user].phrase = strip(text)]
            /\ matched' = [matched EXCEPT ![k] = TRUE]
            /\ conv' = [conv EXCEPT ![k] = CHOOSE_ACTION]
            /\ out' = Out(k, "check_phrase", conv[k], Say("choose_action"))
    /\ UNCHANGED <<gen, peers, running, api_key, file, accepted, crashed, report>>

RemoveAlwaysAsks(k, action) ==
    /\ running
    /\ conv[k] = CHOOSE_ACTION
    /\ conv' = [conv EXCEPT ![k] = CASE action = "cancel" -> END
                                     [] action = "add" -> ENTER_ADDRESS
                                     [] action = "remove" -> CONFIRM_REMOVE]
    /\ matched' = [matched EXCEPT ![k] = action # "cancel"]
    /\ out' = Out(k, "handle_action_choice", conv[k],
                  CASE action = "cancel" -> Say("cancelled")
                    [] action = "add" -> Say("ask_address")
                    [] action = "remove" -> Say("ask_remove"))
    /\ file' = IF action = "remove" THEN load_blacklist_file(file) ELSE file
    /\ UNCHANGED <<gen, peers, running, api_key, user_data, accepted, crashed, report>>

handle_action_choice(k, action) ==
    /\ running
    /\ conv[k] = CHOOSE_ACTION
    /\ CASE action = "cancel" ->
              /\ conv' = [conv EXCEPT ![k] = END]
              /\ matched' = [matched EXCEPT ![k] = FALSE]
              /\ out' = Out(k, "handle_action_choice", conv[k], Say("cancelled"))
              /\ file' = file
         [] action = "add" ->
              /\ conv' = [conv EXCEPT ![k] = ENTER_ADDRESS]
              /\ out' = Out(k, "handle_action_choice", conv[k], Say("ask_address"))
              /\ UNCHANGED <<file, matched>>
         [] action = "remove" ->
              LET blacklist == load_blacklist(file)
              IN /\ file' = load_blacklist_file(file)
                 /\ IF blacklist = EmptyDict
                    THEN /\ conv' = [conv EXCEPT ![k] = END]
                         /\ matched' = [matched EXCEPT ![k] = FALSE]
                         /\ out' = Out(k, "handle_action_choice", conv[k], Say("list_empty"))
                    ELSE /\ conv' = [conv EXCEPT ![k] = CONFIRM_REMOVE]
                         /\ matched' = matched
                         /\ out' = Out(k, "handle_action_choice", conv[k], Say("ask_remove"))
    /\ UNCHANGED <<gen, peers, running, api_key, user_data, accepted, crashed, report>>

\* The test check_address and handle_address make of a stripped text.
valid_format(address) == startswith(address, Pre0x) /\ Len(address) = AddrLen

NeverListed(blacklist, address_lower) == FALSE

\* check_address's test of the lower-cased address against the loaded dict
is_listed(blacklist, address_lower) == address_lower \in DOMAIN blacklist

check_address(k, text) ==
    /\ running
    /\ conv[k] = ENTER_ADDRESS
    /\ LET blacklist == load_blacklist(file)
           address == strip(text)
           address_lower == lower(address)
       IN /\ file' = load_blacklist_file(file)
          /\ IF ~valid_format(address)
             THEN /\ out' = Out(k, "check_address", conv[k], Say("bad_format"))
                  /\ UNCHANGED <<conv, user_data, matched, accepted>>
             ELSE IF is_listed(blacklist, address_lower)
             THEN /\ conv' = [conv EXCEPT ![k] = END]
                  /\ matched' = [matched EXCEPT ![k] = FALSE]
                  /\ out' = Out(k, "check_address", conv[k],
                                Msg("already_listed", <<>>, blacklist[address_lower].reason, ""))
                  /\ UNCHANGED <<user_data, accepted>>
             ELSE /\ user_data' = [user_data EXCEPT ![k.user].address = address_lower]
                  /\ accepted' = [accepted EXCEPT ![k] = address_lower]
                  /\ conv' = [conv EXCEPT ![k] = ENTER_REASON]
                  /\ out' = Out(k, "check_address", conv[k], Say("ask_reason"))
                  /\ UNCHANGED matched
    /\ UNCHANGED <<gen, peers, running, api_key, crashed, report>>

EntryWithoutSource(reason, user) ==
    [reason |-> reason, source |-> "", added_by |-> user,
     username |-> Username(user), date |-> "loop_time"]

\* The entry save_to_blacklist builds. The date is the reading of the event
\* loop's clock, which nothing reads back: one token stands for it.
new_entry(reason, user) ==
    [reason |-> reason, source |-> MANUAL_SOURCE, added_by |-> user,
     username |-> Username(user), date |-> "loop_time"]

save_to_blacklist(k, text, o) ==
    /\ running
    /\ conv[k] = ENTER_REASON
    /\ LET blacklist == load_blacklist(file)
           reason == strip(text)
           address == user_data[k.user].address
           data == Put(blacklist, address, new_entry(reason, k.user))
       IN /\ file' = save_blacklist_file(load_blacklist_file(file), data, o)
          /\ crashed' = IF Killed(o)
                        THEN [killed |-> TRUE, pre |-> blacklist, post |-> data]
                        ELSE crashed
          /\ out' = Out(k, "save_to_blacklist", conv[k],
                        IF Killed(o) THEN Say("none")
                        ELSE IF save_blacklist(o) THEN Msg("added", address, reason, "")
                        ELSE Say("save_error"))
    /\ IF Killed(o)
       THEN Stopped
       ELSE /\ conv' = [conv EXCEPT ![k] = END]
            /\ matched' = [matched EXCEPT ![k] = FALSE]
            /\ accepted' = [accepted EXCEPT ![k] = <<>>]
            /\ UNCHANGED <<running, user_data>>
    /\ UNCHANGED <<gen, peers, api_key, report>>

remove_from_blacklist(k, text, o) ==
    /\ running
    /\ conv[k] = CONFIRM_REMOVE
    /\ LET blacklist == load_blacklist(file)
           address == lower(strip(text))
       IN IF address \notin DOMAIN blacklist
          THEN /\ file' = load_blacklist_file(file)
               /\ conv' = [conv EXCEPT ![k] = END]
               /\ matched' = [matched EXCEPT ![k] = FALSE]
               /\ out' = Out(k, "remove_from_blacklist", conv[k], Say("not_found"))
               /\ UNCHANGED <<running, user_data, accepted, crashed>>
          ELSE LET removed_entry == blacklist[address]
                   data == Pop(blacklist, address)
               IN /\ file' = save_blacklist_file(load_blacklist_file(file), data, o)
                  /\ crashed' = IF Killed(o)
                                THEN [killed |-> TRUE, pre |-> blacklist, post |-> data]
                                ELSE crashed
                  /\ out' = Out(k, "remove_from_blacklist", conv[k],
                                IF Killed(o) THEN Say("none")
                                ELSE IF save_blacklist(o)
                                THEN Msg("removed", address, removed_entry.reason, "")
                                ELSE Say("save_error"))
                  /\ IF Killed(o)
                     THEN Stopped
                     ELSE /\ conv' = [conv EXCEPT ![k] = END]
                          /\ matched' = [matched EXCEPT ![k] = FALSE]
                          /\ UNCHANGED <<running, user_data, accepted>>
    /\ UNCHANGED <<gen, peers, api_key, report>>

CancelKeepsConversation(k) ==
    /\ running
    /\ conv[k] # END
    /\ out' = Out(k, "cancel", conv[k], Say("cancelled"))
    /\ UNCHANGED <<gen, peers, running, api_key, file, conv, user_data, matched, accepted,
                   crashed, report>>

\* /cancel, the fallback of every state of the conversation.
cancel(k) ==
    /\ running
    /\ conv[k] # END
    /\ conv' = [conv EXCEPT ![k] = END]
    /\ matched' = [matched EXCEPT ![k] = FALSE]
    /\ accepted' = [accepted EXCEPT ![k] = <<>>]
    /\ out' = Out(k, "cancel", conv[k], Say("cancelled"))
    /\ UNCHANGED <<gen, peers, running, api_key, file, user_data, crashed, report>>

\* The dialogue while every write of the file succeeds.
Next ==
    \/ main
    \/ \E k \in Keys : start_blacklist_management(k)
    \/ \E k \in Keys, text \in PhraseTexts : check_phrase(k, text)
    \/ \E k \in Keys, action \in Choices : handle_action_choice(k, action)
    \/ \E k \in Keys, text \in AddressTexts : check_address(k, text)
    \/ \E k \in Keys, text \in ReasonTexts :
           save_to_blacklist(k, text, "ok")
    \/ \E k \in Keys, text \in AddressTexts : remove_from_blacklist(k, text, "ok")
    \/ \E k \in Keys : cancel(k)

Spec == Init /\ [][Next]_vars

\* The dialogue while a write of the file may fail or the process be killed
\* in it (and started again by main).
NextFault ==
    \/ main
    \/ \E k \in Keys : start_blacklist_management(k)
    \/ \E k \in Keys, text \in PhraseTexts : check_phrase(k, text)
    \/ \E k \in Keys, action \in Choices : handle_action_choice(k, action)
    \/ \E k \in Keys, text \in AddressTexts : check_address(k, text)
    \/ \E k \in Keys, text \in ReasonTexts, o \in SaveOutcomes :
           save_to_blacklist(k, text, o)
    \/ \E k \in Keys, text \in AddressTexts, o \in SaveOutcomes :
           remove_from_blacklist(k, text, o)
    \/ \E k \in Keys : cancel(k)

SpecFault == Init /\ [][NextFault]_vars

\* --------------------------------------------------------- the address check

\* "Max rate limit reached", the 'result' Etherscan sends with status "0"
\* when it refuses a call.
RateLimited ==
    <<"M", "a", "x", " ", "r", "a", "t", "e", " ", "l", "i", "m", "i", "t", " ",
      "r", "e", "a", "c", "h", "e", "d">>

NotVerified == <<"n", "o", "t", " ", "v", "e", "r", "i", "f", "i", "e", "d">>

Abi == <<"[", "]">>

\* What one GET of generate_aml_report can bring back: a JSON object (its
\* 'status' and 'result', has_result telling whether it has a 'result' at
\* all), or an exception out of session.get / resp.json (no connection, the
\* client's timeout, a body that is not JSON).
Json(status, result) ==
    [kind |-> "json", status |-> status, has_result |-> TRUE, result |-> result]

Raised == [kind |-> "error", status |-> "", has_result |-> FALSE, result |-> <<>>]

\* The balance call: a balance of 0 wei, a balance of 1.5 ETH, a refused call.
BalanceAnswers ==
    {Json("1", <<"0">>), Json("1", <<"1", "5">> \o Rep(17, "0")),
     Json("0", RateLimited), Raised}

\* The txlist call: two transactions, a refused call (its 'result' is then a
\* string, not a list).
TxAnswers == {Json("1", <<"tx", "tx">>), Json("0", RateLimited), Raised}

\* The getabi call: a verified contract, an address without verified source,
\* a refused call.
ContractAnswers ==
    {Json("1", Abi), Json("0", NotVerified), Json("0", RateLimited), Raised}

IsDigit(c) == c \in {"0", "1", "2", "3", "4", "5", "6", "7", "8", "9"}

\* int(s) accepts s (here: a string of digits and nothing else)
is_int(s) == s # <<>> /\ \A i \in 1..Len(s) : IsDigit(s[i])

\* A line of the report: shown, with the value it shows.
Line(value) == [shown |-> TRUE, value |-> value]

NoLine == [shown |-> FALSE, value |-> <<>>]

DigitVal(c) ==
    CASE c = "0" -> 0 [] c = "1" -> 1 [] c = "2" -> 2 [] c = "3" -> 3 [] c = "4" -> 4
      [] c = "5" -> 5 [] c = "6" -> 6 [] c = "7" -> 7 [] c = "8" -> 8 [] c = "9" -> 9

\* int(s) of a string of digits
RECURSIVE int(_)
int(s) == IF s = <<>> THEN 0 ELSE 10 * int(SubSeq(s, 1, Len(s) - 1)) + DigitVal(s[Len(s)])

\* The exponent of 10**18, the wei in one ETH.
WeiDigits == 18

\* The balance, in wei: int(result), or 0 when 'status' is not "1".
balance_of(data) == IF data.status = "1" THEN data.result ELSE <<"0">>

\* "{:.4f}".format(wei / 10**18): the whole ETH and the four decimals, the
\* fifth decimal rounding them (the balances here are no ties).
format_4f(wei) ==
    LET p == Rep(WeiDigits + 1 - Len(wei), "0") \o wei
        n == Len(p)
        whole == int(SubSeq(p, 1, n - WeiDigits))
        frac == int(SubSeq(p, n - WeiDigits + 1, n - WeiDigits + 4))
        up == IF DigitVal(p[n - WeiDigits + 5]) >= 5 THEN 1 ELSE 0
        q == whole * 10000 + frac + up
    IN <<q \div 10000, q % 10000>>

\* len(tx_data.get('result', []))
tx_count_of(tx_data) == IF tx_data.has_result THEN Len(tx_data.result) ELSE 0

is_contract_of(contract_data) ==
    contract_data.status = "1" /\ contract_data.result # NotVerified

\* The report generate_aml_report returns for address while the file is f:
\* the blacklist section, then the Etherscan section (three GETs, one after
\* the other), or, when anything raised, the text of the except branch.
\* 'calls' counts the GETs made.
generate_aml_report(address, f, key, bal, tx, con) ==
    LET address_lower == lower(address)
        blacklist == load_blacklist(f)
        listed == address_lower \in DOMAIN blacklist
        head == [kind |-> "report",
                 address |-> address,
                 listed |-> listed,
                 reason |-> IF listed THEN blacklist[address_lower].reason ELSE <<>>,
                 source |-> IF listed THEN blacklist[address_lower].source ELSE "",
                 etherscan |-> FALSE, calls |-> 0,
                 balance |-> NoLine, tx_count |-> NoLine, is_contract |-> NoLine]
        failure(n) == [head EXCEPT !.kind = "error", !.address = <<>>,
                                   !.listed = FALSE, !.reason = <<>>, !.source = "",
                                   !.calls = n]
    IN IF ~key THEN head
       ELSE IF bal.kind = "error" \/ (bal.status = "1" /\ ~is_int(bal.result))
       THEN failure(1)
       ELSE IF tx.kind = "error" THEN failure(2)
       ELSE IF con.kind = "error" THEN failure(3)
       ELSE [head EXCEPT !.etherscan = TRUE, !.calls = 3,
                         !.balance = Line(format_4f(balance_of(bal))),
                         !.tx_count = Line(tx_count_of(tx)),
                         !.is_contract = Line(is_contract_of(con))]

\* The answer to a text that is not an address.
BadFormat ==
    [kind |-> "bad_format", address |-> <<>>, listed |-> FALSE, reason |-> <<>>,
     source |-> "", etherscan |-> FALSE, calls |-> 0,
     balance |-> NoLine, tx_count |-> NoLine, is_contract |-> NoLine]

\* A text that is no command, from a key whose conversation has no handler
\* for it (none open, or waiting for a button at CHOOSE_ACTION).
handle_address(k, text, bal, tx, con) ==
    /\ running
    /\ k \in peers
    /\ conv[k] \in {END, CHOOSE_ACTION}
    /\ LET address == strip(text)
       IN IF ~valid_format(address)
          THEN /\ file' = file
               /\ report' = [kind |-> "done", text |-> text,
                             bal |-> bal, tx |-> tx, con |-> con, reply |-> BadFormat]
          ELSE /\ file' = load_blacklist_file(file)
               /\ report' = [kind |-> "done", text |-> text,
                             bal |-> bal, tx |-> tx, con |-> con,
                             reply |-> generate_aml_report(address, file, api_key,
                                                           bal, tx, con)]
    /\ UNCHANGED <<gen, peers, running, api_key, conv, user_data, matched, accepted, out, crashed>>

\* The blacklists the dialogue leaves behind it.
ListedA == Put(EmptyDict, AddrA, new_entry(<<"r", "1">>, "u1"))

ListedBoth == Put(ListedA, AddrNotHex, new_entry(<<"r", "2">>, "u2"))

InitReport ==
    /\ peers = {k \in Keys : k.chat # "group"}
    /\ running = FALSE
    /\ api_key \in BOOLEAN
    /\ file \in {NoFile, JsonFile(EmptyDict), JsonFile(ListedA), JsonFile(ListedBoth)}
    /\ conv = [k \in Keys |-> END]
    /\ user_data = [u \in Users |-> NoData]
    /\ matched = [k \in Keys |-> FALSE]
    /\ accepted = [k \in Keys |-> <<>>]
    /\ out = NoOut
    /\ crashed = NoCrash
    /\ report = NoReport
    /\ gen = NoGen

\* The address check alone, over the blacklists the dialogue can leave.
NextReport ==
    \/ main
    \/ \E k \in Keys, text \in AddressTexts, bal \in BalanceAnswers,
          tx \in TxAnswers, con \in ContractAnswers :
           handle_address(k, text, bal, tx, con)

SpecReport == InitReport /\ [][NextReport]_vars

\* The dialogue of one conversation key together with the address check: the
\* checks look up what the dialogue has stored. (SpecReport goes through
\* every combination of answers of the sources.)
InitLookup ==
    /\ peers = {k \in Keys : k.chat = "private_u1"}
    /\ running = FALSE
    /\ api_key = TRUE
    /\ file \in {NoFile, JsonFile(EmptyDict)}
    /\ conv = [k \in Keys |-> END]
    /\ user_data = [u \in Users |-> NoData]
    /\ matched = [k \in Keys |-> FALSE]
    /\ accepted = [k \in Keys |-> <<>>]
    /\ out = NoOut
    /\ crashed = NoCrash
    /\ report = NoReport
    /\ gen = NoGen

\* The sources all answer, or the first call raises.
LookupAnswers ==
    {<<bal, Json("1", <<"tx", "tx">>), Json("1", Abi)>> :
        bal \in {Json("1", <<"0">>), Raised}}

NextLookup ==
    \/ Next
    \/ \E k \in Keys, text \in AddressTexts, a \in LookupAnswers :
           handle_address(k, text, a[1], a[2], a[3])

SpecLookup == InitLookup /\ [][NextLookup]_vars

\* ------------------------------------------------- the blacklist generator

\* str.endswith()
endswith(s, p) == Len(s) >= Len(p) /\ SubSeq(s, Len(s) - Len(p) + 1, Len(s)) = p

TxtSuffix == <<".", "t", "x", "t">>

\* f"temp_{file_name}"
TempPrefix == <<"t", "e", "m", "p", "_">>

\* output_file; a path is a sequence, this one of one piece
OutputFile == <<"blacklist_generated.json">>

\* file_name of the documents sent
FileNames == {<<"a">> \o TxtSuffix, <<"a", ".", "c", "s", "v">>}

\* Lines of the documents sent (without their line ends): an address in
\* capitals, an address with a blank on each side, a short text, a blank line.
GenLines == {AddrAMixed, Pad(1, AddrA, 1), AddrShort, <<" ">>}

GenInputs == UNION {[1..n -> GenLines] : n \in 0..MaxLines}

\* The first call of handle_document that raises:
\*   get_file          context.bot.get_file
\*   download_nofile   download_to_drive, before it created the file
\*   download_partial  download_to_drive, after it created the file
\*   read              open / readlines of the downloaded file
\*   write             json.dump into the output file
\*   reply             the reply_text or reply_document of the path taken
GenFaults ==
    {"none", "get_file", "download_nofile", "download_partial", "read", "write", "reply"}

\* valid_addresses: the stripped lines that are not blank and pass the test
\* of the prefix and the length, lower-cased, in their order
valid_addresses(lines) ==
    LET stripped == [i \in 1..Len(lines) |-> strip(lines[i])]
        addresses == SelectSeq(stripped, LAMBDA a : a # <<>>)
        valid == SelectSeq(addresses, LAMBDA a : valid_format(a))
    IN [i \in 1..Len(valid) |-> lower(valid[i])]

\* handle_document on a document called name holding lines, in a directory
\* holding disk: how it ended, the keys of the blacklist it sent, and the
\* directory it leaves. fault is the call that raises; reply_fails tells
\* whether the reply_text of the except branch raises as well (the clean-up
\* comes after it).
handle_document_result(disk, name, lines, fault, reply_fails) ==
    LET file_path == TempPrefix \o name
        downloaded == disk \cup {file_path}
        valid == valid_addresses(lines)
        blacklist == {valid[i] : i \in 1..Len(valid)}
        written == downloaded \cup {OutputFile}
        result(exit, keys, d) == [exit |-> exit, keys |-> keys, disk |-> d]
        except(d, has_path, has_output) ==
            IF reply_fails
            THEN result("error_unreported", {}, d)
            ELSE result("error", {},
                        (d \ (IF has_path THEN {file_path} ELSE {}))
                            \ (IF has_output THEN {OutputFile} ELSE {}))
    IN IF fault = "get_file" THEN except(disk, FALSE, FALSE)
       ELSE IF fault = "download_nofile" THEN except(disk, TRUE, FALSE)
       ELSE IF fault = "download_partial" THEN except(downloaded, TRUE, FALSE)
       ELSE IF ~endswith(file_path, TxtSuffix)
       THEN IF fault = "reply" THEN except(downloaded, TRUE, FALSE)
            ELSE result("wrong_extension", {}, downloaded \ {file_path})
       ELSE IF fault = "read" THEN except(downloaded, TRUE, FALSE)
       ELSE IF valid = <<>>
       THEN IF fault = "reply" THEN except(downloaded, TRUE, FALSE)
            ELSE result("no_valid", {}, downloaded \ {file_path})
       ELSE IF fault \in {"write", "reply"} THEN except(written, TRUE, TRUE)
       ELSE result("success", blacklist, (written \ {file_path}) \ {OutputFile})

handle_document(name, lines, fault, reply_fails) ==
    /\ LET r == handle_document_result(gen.disk, name, lines, fault, reply_fails)
       IN gen' = [name |-> name, lines |-> lines, fault |-> fault,
                  reply_fails |-> reply_fails,
                  exit |-> r.exit, keys |-> r.keys, disk |-> r.disk]
    /\ UNCHANGED <<peers, running, api_key, file, conv, user_data, matched, accepted,
                   out, crashed, report>>

\* The generator bot is a program of its own: it shares nothing with the
\* AML bot, which stays as it is.
InitGenerator ==
    /\ peers = {k \in Keys : k.chat # "group"}
    /\ running = FALSE
    /\ api_key = TRUE
    /\ file = NoFile
    /\ conv = [k \in Keys |-> END]
    /\ user_data = [u \in Users |-> NoData]
    /\ matched = [k \in Keys |-> FALSE]
    /\ accepted = [k \in Keys |-> <<>>]
    /\ out = NoOut
    /\ crashed = NoCrash
    /\ report = NoReport
    /\ gen = NoGen

NextGenerator ==
    \E name \in FileNames, lines \in GenInputs, fault \in GenFaults,
       reply_fails \in BOOLEAN :
        handle_document(name, lines, fault, reply_fails)

SpecGenerator == InitGenerator /\ [][NextGenerator]_vars

\* ------------------------------------------------------------------ claims

\* The blacklist as the handlers read it.
Store == load_blacklist(file)

\* C1: when a second session commits the add of an address that another
\* session has added since the second one's address step, the second is told
\* that the address is already present, and the entry (with the reason of
\* the session that succeeded) stays as it is: one add succeeds, not two.
C1_SecondAddRefused ==
    [][\A k \in Keys, text \in ReasonTexts :
          (/\ out'.key = k
           /\ conv[k] = ENTER_REASON
           /\ accepted[k] \in DOMAIN Store
           /\ save_to_blacklist(k, text, "ok"))
              => (out'.msg.kind = "already_listed" /\ Store' = Store)]_vars

\* C2, as stated: a text at ENTER_PHRASE that is not the secret ends the
\* conversation.
C2_UnequalInputEnds ==
    [][\A k \in Keys, text \in PhraseTexts :
          (/\ out'.key = k
           /\ conv[k] = ENTER_PHRASE
           /\ text # SECRET_PHRASE
           /\ check_phrase(k, text))
              => conv'[k] = END]_vars

\* C2, amended: a text at ENTER_PHRASE that, stripped of the blanks around it,
\* is not the secret ends the conversation with the file untouched; and
\* whenever the handling of an update of a conversation changes the
\* blacklist, that conversation has passed check_phrase.
C2_WrongSecretEnds ==
    [][/\ \A k \in Keys, text \in PhraseTexts :
              (/\ out'.key = k
               /\ conv[k] = ENTER_PHRASE
               /\ strip(text) # SECRET_PHRASE
               /\ check_phrase(k, text))
                  => (conv'[k] = END /\ ~matched'[k] /\ file' = file)
       /\ \A k \in Keys :
              (running /\ out'.key = k /\ Store' # Store) => matched[k]]_vars

C2_Witness ==
    /\ out.handler = "check_phrase"
    /\ out.msg.kind = "wrong_phrase"
    /\ conv[out.key] = END
    /\ Store # EmptyDict

\* The sources generate_aml_report asks: the fields of its answers and of
\* the lines of its report.
Sources == {"balance", "tx_count", "is_contract"}

AnswerTo(src) ==
    CASE src = "balance" -> report.bal
      [] src = "tx_count" -> report.tx
      [] src = "is_contract" -> report.con

\* The source did not deliver: the call raised, or the provider refused it.
\* ("Not verified" is an answer of the getabi call, not a failure of it.)
SourceFailed(src) ==
    LET a == AnswerTo(src)
    IN \/ a.kind = "error"
       \/ (src = "balance" /\ a.status # "1")
       \/ (src # "balance" /\ a.status # "1" /\ a.result = RateLimited)

\* A value the line of a source can show when the source delivered.
OkValue(src, v) ==
    CASE src = "balance" -> v \in Nat \X (0..9999)
      [] src = "tx_count" -> v \in Nat
      [] src = "is_contract" -> v \in BOOLEAN

\* What a report says of a source: nothing, a value the source can have
\* delivered, or something that cannot be taken for one.
SignalStatus(reply, src) ==
    IF ~reply[src].shown THEN "None"
    ELSE IF OkValue(src, reply[src].value) THEN "Ok"
    ELSE "Failed"

\* An address was checked while the Etherscan key is set.
Analyzed == report.kind = "done" /\ report.reply.kind # "bad_format" /\ api_key

\* C3: the report of an address check has one signal for each of the three
\* sources, Failed for a source that failed and Ok for one that delivered,
\* whatever the sources did; the check never ends in a failure of its own.
C3_OneSignalPerSource ==
    Analyzed =>
        /\ report.reply.kind = "report"
        /\ \A src \in Sources :
               SignalStatus(report.reply, src)
                   = IF SourceFailed(src) THEN "Failed" ELSE "Ok"

\* C4: when the process has been killed inside save_blacklist, the blacklist
\* read back from the file is what was there before the call or what the
\* call was writing.
C4_KilledSaveIsAtomic ==
    (~running /\ crashed.killed)
        => load_blacklist(file) \in {crashed.pre, crashed.post}

IsHexDigit(c) ==
    c \in {"0", "1", "2", "3", "4", "5", "6", "7", "8", "9",
           "a", "b", "c", "d", "e", "f", "A", "B", "C", "D", "E", "F"}

\* The address syntax of the specification, of a text as the handlers test it
\* (stripped): the prefix, the length, and hexadecimal digits after the prefix.
WellFormed(s) ==
    /\ startswith(s, Pre0x)
    /\ Len(s) = AddrLen
    /\ \A i \in (Len(Pre0x) + 1)..Len(s) : IsHexDigit(s[i])

\* C6: check_address accepts a text (does not answer that the format is
\* wrong) if and only if it has the prefix, the length 42 and only
\* hexadecimal digits after the prefix, in either letter case.
C6_AcceptsIffWellFormed ==
    [][\A k \in Keys, text \in AddressTexts :
          (out'.key = k /\ conv[k] = ENTER_ADDRESS /\ check_address(k, text))
              => ((out'.msg.kind # "bad_format") <=> WellFormed(strip(text)))]_vars

\* C7: when the balance call is answered with status "0" and the two other
\* calls deliver, the balance signal of the report is Failed (not the Ok
\* signal of a balance of 0) and the two other signals are Ok.
C7_RefusedBalanceIsFailed ==
    (/\ Analyzed
     /\ report.bal = Json("0", RateLimited)
     /\ ~SourceFailed("tx_count")
     /\ ~SourceFailed("is_contract"))
        => /\ report.reply.kind = "report"
           /\ SignalStatus(report.reply, "balance") = "Failed"
           /\ report.reply.balance # Line(format_4f(balance_of(Json("1", <<"0">>))))
           /\ SignalStatus(report.reply, "tx_count") = "Ok"
           /\ SignalStatus(report.reply, "is_contract") = "Ok"

\* C8: an address step of the add path whose address is already listed
\* reports the reason stored with it and ends the conversation, a remove
\* step whose address is not listed reports so and ends the conversation,
\* and both leave the file as it was.
C8_RefusedMutationNoEffect ==
    [][/\ \A k \in Keys, text \in AddressTexts :
              (/\ out'.key = k
               /\ conv[k] = ENTER_ADDRESS
               /\ valid_format(strip(text))
               /\ lower(strip(text)) \in DOMAIN Store
               /\ check_address(k, text))
                  => /\ conv'[k] = END
                     /\ out'.msg.kind = "already_listed"
                     /\ out'.msg.reason = Store[lower(strip(text))].reason
                     /\ file' = file
       /\ \A k \in Keys, text \in AddressTexts :
              (/\ out'.key = k
               /\ conv[k] = CONFIRM_REMOVE
               /\ lower(strip(text)) \notin DOMAIN Store
               /\ remove_from_blacklist(k, text, "ok"))
                  => /\ conv'[k] = END
                     /\ out'.msg.kind = "not_found"
                     /\ file' = file]_vars

\* A session was told that its address is already listed, with the reason of
\* the entry, which is still there.
C8_Witness ==
    /\ out.handler = "check_address"
    /\ out.msg.kind = "already_listed"
    /\ conv[out.key] = END
    /\ AddrA \in DOMAIN Store
    /\ out.msg.reason = Store[AddrA].reason

\* C9: in every state of the conversation but the terminal one /cancel is
\* handled, and a cancel (the command, or the button at CHOOSE_ACTION) ends
\* the conversation and leaves the file as it was.
C9_CancelEndsNoEffect ==
    /\ [](\A k \in Keys : (running /\ conv[k] # END) => ENABLED cancel(k))
    /\ [][\A k \in Keys :
              (out'.key = k /\ conv[k] # END /\ (cancel(k) \/ handle_action_choice(k, "cancel")))
                  => (conv'[k] = END /\ file' = file)]_vars

\* A conversation that had its address accepted was cancelled at the reason
\* step; nothing was stored.
C9_Witness ==
    /\ out.handler = "cancel"
    /\ out.from = ENTER_REASON
    /\ conv[out.key] = END
    /\ user_data[out.key.user].address \notin DOMAIN Store

\* The address a conversation waits to commit.
Pending(k) == IF conv[k] = ENTER_REASON THEN user_data[k.user].address ELSE <<>>

\* C10: the handling of an update of one conversation changes neither the
\* state nor the pending address of another, and the add step stores, under
\* the address accepted in its own conversation, the reason it was given.
C10_SessionsIndependent ==
    [][\A k \in Keys :
          (running /\ running' /\ out'.key = k /\ out' # out)
              => /\ \A j \in Keys \ {k} :
                        conv'[j] = conv[j] /\ Pending(j)' = Pending(j)
                 /\ \A text \in ReasonTexts :
                        (/\ conv[k] = ENTER_REASON
                         /\ save_to_blacklist(k, text, "ok"))
                            => /\ DOMAIN Store' = DOMAIN Store \cup {accepted[k]}
                               /\ Store'[accepted[k]].reason = strip(text)]_vars

\* The letters of the inputs, in their two cases.
LetterPairs == {<<"a", "A">>, <<"b", "B">>, <<"x", "X">>, <<"z", "Z">>}

IsLowerCase(s) == \A i \in 1..Len(s) : \A p \in LetterPairs : s[i] # p[2]

\* Two texts that differ in the case of their letters only.
SameAddress(a, b) ==
    /\ Len(a) = Len(b)
    /\ \A i \in 1..Len(a) :
           a[i] = b[i] \/ <<a[i], b[i]>> \in LetterPairs \/ <<b[i], a[i]>> \in LetterPairs

\* C11: every key of the blacklist is in lower case and no two keys differ
\* in letter case only; an add stores its entry under the lower-cased
\* address; a remove of a text that is a stored key in any letter case finds
\* and removes that key; and the report made for a well-prefixed text says
\* "listed" exactly when the text is a stored key in some letter case.
C11_KeysCanonical ==
    /\ [](\A a \in DOMAIN Store :
              /\ IsLowerCase(a)
              /\ \A b \in DOMAIN Store : SameAddress(a, b) => a = b)
    /\ [][/\ \A k \in Keys, text \in AddressTexts :
                 (out'.key = k /\ conv[k] = ENTER_ADDRESS /\ check_address(k, text)
                  /\ conv'[k] = ENTER_REASON)
                     => (SameAddress(accepted'[k], strip(text)) /\ IsLowerCase(accepted'[k]))
          /\ \A k \in Keys, text \in ReasonTexts :
                 (out'.key = k /\ conv[k] = ENTER_REASON /\ save_to_blacklist(k, text, "ok"))
                     => (out'.msg.address \in DOMAIN Store' /\ IsLowerCase(out'.msg.address))
          /\ \A k \in Keys, text \in AddressTexts :
                 (out'.key = k /\ conv[k] = CONFIRM_REMOVE
                  /\ remove_from_blacklist(k, text, "ok"))
                     => \A a \in DOMAIN Store :
                            SameAddress(a, strip(text))
                                => (out'.msg = Msg("removed", a, Store[a].reason, "")
                                    /\ a \notin DOMAIN Store')
          /\ \A k \in Keys, text \in AddressTexts, ans \in LookupAnswers :
                 (/\ valid_format(strip(text))
                  /\ handle_address(k, text, ans[1], ans[2], ans[3])
                  /\ report'.reply.kind = "report")
                     => (report'.reply.listed
                            <=> \E a \in DOMAIN Store : SameAddress(a, strip(text)))]_vars

\* The address, written in capitals, was reported as listed under its
\* lower-case key, and has then been removed.
C11_Witness ==
    /\ report.kind = "done"
    /\ report.text = AddrAMixed
    /\ report.reply.kind = "report"
    /\ report.reply.listed
    /\ out.handler = "remove_from_blacklist"
    /\ out.msg.kind = "removed"
    /\ out.msg.address = AddrA
    /\ AddrA \notin DOMAIN Store

\* C12: the blacklist section of a report is determined by the address and
\* the stored entries alone (so two checks of an address with the same
\* entries stored say the same), an address that is not stored is reported as
\* not listed and makes no check fail (a check fails only when a call to a
\* source raises), no address check changes the stored entries, and where
\* there is no file the blacklist read is the empty one.
C12_LookupPure ==
    /\ [](load_blacklist(NoFile) = EmptyDict
          /\ load_blacklist(load_blacklist_file(NoFile)) = EmptyDict)
    /\ [][\A k \in Keys, text \in AddressTexts, ans \in LookupAnswers :
              handle_address(k, text, ans[1], ans[2], ans[3])
                  => /\ Store' = Store
                     /\ (report'.reply.kind = "error") => (ans[1].kind = "error")
                     /\ (report'.reply.kind = "report") =>
                            LET a == lower(strip(text))
                            IN IF a \in DOMAIN Store
                               THEN /\ report'.reply.listed
                                    /\ report'.reply.reason = Store[a].reason
                                    /\ report'.reply.source = Store[a].source
                               ELSE /\ ~report'.reply.listed
                                    /\ report'.reply.reason = <<>>
                                    /\ report'.reply.source = ""]_vars

\* While one address is stored, another was checked and reported as not
\* listed; the stored one is still there.
C12_Witness ==
    /\ report.kind = "done"
    /\ report.text = AddrA
    /\ report.reply.kind = "report"
    /\ ~report.reply.listed
    /\ DOMAIN Store = {AddrNotHex}

\* C13, as stated: the step that receives the reason does not commit yet
\* (the conversation goes on, to ask for the source), and the entries added
\* without a source have the source "manual".
C13_SourceAskedAfterReason ==
    /\ [][\A k \in Keys, text \in ReasonTexts :
              (out'.key = k /\ conv[k] = ENTER_REASON /\ save_to_blacklist(k, text, "ok"))
                  => (Store' = Store /\ conv'[k] # END)]_vars
    /\ [](\A a \in DOMAIN Store : Store[a].source = "manual")

\* C13, amended: the add path takes the address, then the reason, and the
\* step that receives the reason commits: a conversation comes to
\* ENTER_REASON only from ENTER_ADDRESS with an address accepted, an entry is
\* written only by the step taken at ENTER_REASON, which ends the
\* conversation, and no source is asked for: every entry has the source of
\* a hand-made entry.
C13_ReasonStepCommits ==
    /\ [][\A k \in Keys :
              (running /\ out'.key = k /\ out' # out)
                  => /\ (conv'[k] = ENTER_REASON)
                            => /\ conv[k] = ENTER_ADDRESS
                               /\ out'.handler = "check_address"
                               /\ accepted'[k] # <<>>
                     /\ (\E a \in DOMAIN Store' : a \notin DOMAIN Store \/ Store'[a] # Store[a])
                            => /\ conv[k] = ENTER_REASON
                               /\ out'.handler = "save_to_blacklist"
                               /\ conv'[k] = END
                     /\ \A text \in ReasonTexts :
                            (conv[k] = ENTER_REASON /\ save_to_blacklist(k, text, "ok"))
                                => /\ out'.msg.kind = "added"
                                   /\ Store'[out'.msg.address].reason = strip(text)
                                   /\ Store'[out'.msg.address].source = MANUAL_SOURCE]_vars
    /\ [](\A a \in DOMAIN Store : Store[a].source = MANUAL_SOURCE)

\* The reason step has just stored an entry, with the fixed source.
C13_Witness ==
    /\ out.handler = "save_to_blacklist"
    /\ out.from = ENTER_REASON
    /\ out.msg.kind = "added"
    /\ conv[out.key] = END
    /\ out.msg.address \in DOMAIN Store
    /\ Store[out.msg.address].source = MANUAL_SOURCE

\* C14: at ENTER_ADDRESS a text that is not a well-formed address leaves the
\* conversation at ENTER_ADDRESS with the blacklist, the pending data of the
\* user and the accepted address as they were; and a conversation leaves
\* ENTER_ADDRESS only by a cancel or by an address being accepted.
C14_InvalidAddressRetries ==
    [][\A k \in Keys :
          (running /\ running' /\ out'.key = k /\ conv[k] = ENTER_ADDRESS)
              => /\ \A text \in AddressTexts :
                        (~WellFormed(strip(text)) /\ check_address(k, text))
                            => /\ conv'[k] = ENTER_ADDRESS
                               /\ Store' = Store
                               /\ user_data' = user_data
                               /\ accepted' = accepted
                 /\ (conv'[k] # ENTER_ADDRESS)
                        => \/ out'.handler = "cancel"
                           \/ (out'.handler = "check_address" /\ conv'[k] = ENTER_REASON)]_vars

\* C15: whatever the three calls to the sources did, the reply to the check
\* of an address is a report, and it says "listed" exactly when the
\* lower-cased address is a key of the blacklist.
C15_StatusWhateverSourcesDo ==
    (report.kind = "done" /\ report.reply.kind # "bad_format")
        => /\ report.reply.kind = "report"
           /\ report.reply.listed <=> (lower(strip(report.text)) \in DOMAIN Store)

\* C16: when a call to a source ends in an exception (the source did not
\* answer before the client's timeout, or the connection failed), the check
\* still makes its three calls and replies with a report in which that source
\* is Failed and every other source has its signal.
C16_TimeoutIsOneFailedSignal ==
    (Analyzed /\ \E src \in Sources : AnswerTo(src).kind = "error")
        => /\ report.reply.kind = "report"
           /\ report.reply.calls = Cardinality(Sources)
           /\ \A src \in Sources :
                  IF AnswerTo(src).kind = "error"
                  THEN SignalStatus(report.reply, src) = "Failed"
                  ELSE SignalStatus(report.reply, src) # "None"

\* C17: every commit is reflected in the blacklist and undoes no other one:
\* the reason step of a conversation leaves the address accepted in that
\* conversation stored, the remove step leaves its address not stored, and
\* both leave the entry of every other address as it was.
C17_NoLostUpdate ==
    [][\A k \in Keys :
          (running /\ running' /\ out'.key = k /\ out' # out)
              => /\ \A text \in ReasonTexts :
                        (conv[k] = ENTER_REASON /\ save_to_blacklist(k, text, "ok"))
                            => /\ accepted[k] \in DOMAIN Store'
                               /\ \A b \in DOMAIN Store \ {accepted[k]} :
                                      b \in DOMAIN Store' /\ Store'[b] = Store[b]
                               /\ DOMAIN Store' \subseteq DOMAIN Store \cup {accepted[k]}
                 /\ \A text \in AddressTexts :
                        (/\ conv[k] = CONFIRM_REMOVE
                         /\ lower(strip(text)) \in DOMAIN Store
                         /\ remove_from_blacklist(k, text, "ok"))
                            => /\ lower(strip(text)) \notin DOMAIN Store'
                               /\ \A b \in DOMAIN Store \ {lower(strip(text))} :
                                      b \in DOMAIN Store' /\ Store'[b] = Store[b]
                               /\ DOMAIN Store' \subseteq DOMAIN Store]_vars

\* C18: the choice of "remove" at CHOOSE_ACTION ends the conversation at
\* once, saying that the list is empty, when the blacklist has no entry, and
\* moves it to CONFIRM_REMOVE when the blacklist has one; the blacklist is
\* the same after the step in both cases.
C18_RemoveOfEmptyListEnds ==
    [][\A k \in Keys :
          (out'.key = k /\ conv[k] = CHOOSE_ACTION /\ handle_action_choice(k, "remove"))
              => /\ Store' = Store
                 /\ IF Store = EmptyDict
                    THEN conv'[k] = END /\ out'.msg.kind = "list_empty"
                    ELSE conv'[k] = CONFIRM_REMOVE /\ out'.msg.kind = "ask_remove"]_vars

\* "remove" was chosen while the blacklist held no entry: the conversation
\* ended there.
C18_Witness ==
    /\ out.handler = "handle_action_choice"
    /\ out.from = CHOOSE_ACTION
    /\ out.msg.kind = "list_empty"
    /\ conv[out.key] = END
    /\ file = JsonFile(EmptyDict)

\* C19: when handle_document has finished, however it ended, neither the
\* downloaded file nor the output file is on disk; and when it ended in
\* success, the keys of the blacklist it sent are the lower-cased lines of
\* the document (a line taken without the blanks around it) that start with
\* 0x and have 42 characters.
C19_NoFileLeftAndKeysExact ==
    (gen.exit # "none")
        => /\ TempPrefix \o gen.name \notin gen.disk
           /\ OutputFile \notin gen.disk
           /\ (gen.exit = "success")
                  => gen.keys = {lower(strip(gen.lines[i])) :
                                    i \in {j \in 1..Len(gen.lines) :
                                             /\ startswith(strip(gen.lines[j]), Pre0x)
                                             /\ Len(strip(gen.lines[j])) = AddrLen}}

====
